---- MODULE Spec2Model ----
(***************************************************************************)
(* Model of the job-recommendation pipeline of notebook/generate_data.py   *)
(* (and its twin notebook/generate_sample_data.py).                        *)
(*                                                                         *)
(*   Spec      stratified_sample, one action per statement / loop turn     *)
(*   SpecTopN  get_top_n_recs, one action per row of the matrix            *)
(*   SpecMain  main, one action per pipeline stage                         *)
(*   SpecFeat  the feature matrices of main, one action per matrix         *)
(*                                                                         *)
(* The specifications share the module's variables; each keeps the         *)
(* variables of the others at their idle values.                           *)
(***************************************************************************)
EXTENDS Integers, Sequences, FiniteSets, TLC

VARIABLES
    \* ---- stratified_sample(df, n, min_per_group)
    pc,             \* position in stratified_sample
    df,             \* the corpus handed in: a sequence of job records
    n,              \* target size
    min_per_group,  \* floor per category
    df_dedup,       \* rows kept by drop_duplicates, category filled
    cat_samples,    \* the Series of quotas, in value_counts order
    sampled,        \* list of the per-category draws done so far
    result,         \* the frame returned (rows in final order)
    rng,            \* permutation RandomState(42) yields, per population size
    \* ---- get_top_n_recs(sim_matrix, df, n)
    tpc,            \* position in get_top_n_recs
    sim_matrix,     \* the similarity matrix, scores in units of 0.00001
    df_len,         \* len(df): number of rows of the sampled frame
    rec_n,          \* the parameter n of get_top_n_recs
    row_i,          \* the loop variable i (rows are numbered from 1 here)
    recs,           \* the lists emitted so far, by row
    \* ---- main()
    mpc,            \* position in main
    feed_ok,        \* what download_feed returned
    n_jobs,         \* len(all_jobs): valid jobs parsed from the feed
    m_len,          \* len(df): rows of the sampled frame
    WEIGHTS,        \* the weights of the composite, in hundredths
    parts,          \* one entry (i, j) of each per-feature matrix, units of 0.00001
    weighted_entry, \* the same entry of weighted_sim
    baseline_recs,  \* length of each list of baseline_recs, by row
    weighted_recs,  \* length of each list of weighted_recs, by row
    files,          \* the export files written so far
    jobs_export,    \* ids of the entries of jobs_export
    rec_ids,        \* ids found in the lists of each recommendation map
    \* ---- the feature matrices of main(), lines 184-268
    fpc,            \* position in the vectorizer block
    feat_df,        \* the sampled frame: the columns the matrices read
    title_sim,      \* cosine matrix of the title TF-IDF
    desc_sim,       \* cosine matrix of the description TF-IDF
    cat_sim,        \* category indicator matrix
    loc_sim,        \* tiered location matrix
    type_sim,       \* job-type indicator matrix
    exp_sim,        \* experience matrix
    weighted_sim    \* the weighted composite

sampleVars == <<pc, df, n, min_per_group, df_dedup, cat_samples, sampled, result, rng>>

topVars == <<tpc, sim_matrix, df_len, rec_n, row_i, recs>>

mainVars == <<mpc, feed_ok, n_jobs, m_len, WEIGHTS, parts, weighted_entry,
              baseline_recs, weighted_recs, files, jobs_export, rec_ids>>

featVars == <<fpc, feat_df, title_sim, desc_sim, cat_sim, loc_sim, type_sim,
              exp_sim, weighted_sim>>

vars == <<sampleVars, topVars, mainVars, featVars>>

-----------------------------------------------------------------------------
(* Bounds of the model *)

MaxCorpus == 3      \* longest corpus
MaxN == 3           \* largest target size n
MaxGroup == 2       \* largest min_per_group
MaxItems == 3       \* largest sampled frame handed to get_top_n_recs
MaxTop == 3         \* largest n handed to get_top_n_recs
MaxJobs == 4        \* largest number of jobs parsed from the feed
MaxFrame == 3       \* longest frame handed to the feature matrices

-----------------------------------------------------------------------------
(* Generic helpers *)

Max(a, b) == IF a >= b THEN a ELSE b
Min(a, b) == IF a <= b THEN a ELSE b

\* subsequence of s at the positions in keep, from position i on, order preserved
RECURSIVE SelectIdx(_, _, _)
SelectIdx(s, keep, i) ==
    IF i > Len(s) THEN <<>>
    ELSE (IF i \in keep THEN <<s[i]>> ELSE <<>>) \o SelectIdx(s, keep, i + 1)

RECURSIVE Flatten(_)
Flatten(ss) == IF ss = <<>> THEN <<>> ELSE Head(ss) \o Flatten(Tail(ss))

Perms(L) == {p \in [1..L -> 1..L] : \A i, j \in 1..L : i # j => p[i] # p[j]}

-----------------------------------------------------------------------------
(* The corpus: records as parse_feed builds them, reduced to the fields    *)
(* stratified_sample reads.                                                *)

Triples ==
    { <<"Engineer", "Acme", "Austin">>,
      <<"Engineer", "Bolt", "Austin">>,
      <<"Nurse", "Acme", "Boston">> }

Categories == {"", "IT", "Sales"}

JobRecords ==
    { [title |-> t[1], company |-> t[2], city |-> t[3], category |-> c] :
        t \in Triples, c \in Categories }

Corpora == UNION { [1..k -> JobRecords] : k \in 0..MaxCorpus }

-----------------------------------------------------------------------------
(* stratified_sample: pure parts *)

DedupKey(r) == <<r.title, r.company, r.city>>

\* a variant that keeps the last occurrence of each key instead of the first
DropDuplicatesKeepLast(frame) ==
    SelectIdx([i \in DOMAIN frame |-> [row |-> i, rec |-> frame[i]]],
              {i \in DOMAIN frame : \A j \in (i + 1)..Len(frame) :
                                        DedupKey(frame[j]) # DedupKey(frame[i])},
              1)

\* df.drop_duplicates(subset=['title','company','city']): keep='first'. Each
\* kept row carries its index label in df.
DropDuplicates(frame) ==
    SelectIdx([i \in DOMAIN frame |-> [row |-> i, rec |-> frame[i]]],
              {i \in DOMAIN frame : \A j \in 1..(i - 1) :
                                        DedupKey(frame[j]) # DedupKey(frame[i])},
              1)

\* df_dedup['category'].replace('', 'Other')
FillCategory(c) == IF c = "" THEN "Other" ELSE c

FillOther(rows) ==
    [i \in DOMAIN rows |->
        [row |-> rows[i].row,
         rec |-> [rows[i].rec EXCEPT !.category = FillCategory(@)]]]

CatsOf(rows) == {rows[i].rec.category : i \in DOMAIN rows}

CountOf(rows, c) == Cardinality({i \in DOMAIN rows : rows[i].rec.category = c})

\* value_counts(): the distinct categories by descending count. pandas leaves
\* the order of categories with equal counts to the sort; every order that is
\* descending by count is an outcome.
ValueCountOrders(rows) ==
    LET cs == CatsOf(rows)
        k  == Cardinality(cs)
    IN { s \in [1..k -> cs] :
            /\ \A i, j \in 1..k : i # j => s[i] # s[j]
            /\ \A i, j \in 1..k : i < j => CountOf(rows, s[i]) >= CountOf(rows, s[j]) }

\* int((count / total) * n): truncation of the proportional share. For the
\* sizes of this model float64 gives exactly the integer quotient.
ShareTrunc(count, total, size) == (count * size) \div total

\* round((count / total) * n) as Python rounds: to the nearest integer, a
\* half to the even neighbour
ShareRound(count, total, size) ==
    LET whole == (count * size) \div total
        twice == 2 * ((count * size) % total)
    IN  IF twice > total THEN whole + 1
        ELSE IF twice < total THEN whole
        ELSE IF whole % 2 = 0 THEN whole ELSE whole + 1

\* lambda x: max(round(x), min_per_group)
InitialQuotaRounded(count, total, size, floor) ==
    Max(ShareRound(count, total, size), floor)

\* lambda x: max(int(x), min_per_group)
InitialQuota(count, total, size, floor) == Max(ShareTrunc(count, total, size), floor)

RECURSIVE QuotaSum(_)
QuotaSum(series) ==
    IF series = <<>> THEN 0 ELSE Head(series).quota + QuotaSum(Tail(series))

\* position of the last occurrence of the maximum
IdxMaxLast(series) ==
    CHOOSE i \in DOMAIN series :
        /\ \A j \in DOMAIN series : series[j].quota <= series[i].quota
        /\ \A j \in (i + 1)..Len(series) : series[j].quota < series[i].quota

\* Series.idxmax(): position of the first occurrence of the maximum
IdxMax(series) ==
    CHOOSE i \in DOMAIN series :
        /\ \A j \in DOMAIN series : series[j].quota <= series[i].quota
        /\ \A j \in 1..(i - 1) : series[j].quota < series[i].quota

\* a variant of the first loop test that stops one short of the target
OverTargetOffByOne(series, size) == QuotaSum(series) > size + 1

\* while cat_samples.sum() > n
OverTarget(series, size) == QuotaSum(series) > size

\* while cat_samples.sum() < n
UnderTarget(series, size) == QuotaSum(series) < size

\* df_dedup[df_dedup['category'] == cat]
CatFrame(rows, c) == SelectIdx(rows, {i \in DOMAIN rows : rows[i].rec.category = c}, 1)

-----------------------------------------------------------------------------
(* stratified_sample: the state machine *)

InitSample ==
    /\ pc = "dedup"
    /\ df \in Corpora
    /\ n \in 0..MaxN
    /\ min_per_group \in 0..MaxGroup
    /\ df_dedup = <<>>
    /\ cat_samples = <<>>
    /\ sampled = <<>>
    /\ result = <<>>
    /\ rng = [L \in 1..MaxCorpus |-> <<>>]

\* stratified_sample is not running
IdleSample ==
    /\ pc = "idle"
    /\ df = <<>>
    /\ n = 0
    /\ min_per_group = 0
    /\ df_dedup = <<>>
    /\ cat_samples = <<>>
    /\ sampled = <<>>
    /\ result = <<>>
    /\ rng = <<>>

\* lines 120-124
Dedup ==
    /\ pc = "dedup"
    /\ df_dedup' = FillOther(DropDuplicates(df))
    /\ pc' = "quota"
    /\ UNCHANGED <<df, n, min_per_group, cat_samples, sampled, result, rng>>
    /\ UNCHANGED <<topVars, mainVars, featVars>>

\* lines 126-128
InitialQuotas ==
    /\ pc = "quota"
    /\ \E order \in ValueCountOrders(df_dedup) :
          cat_samples' =
              [i \in DOMAIN order |->
                  [cat |-> order[i],
                   quota |-> InitialQuota(CountOf(df_dedup, order[i]),
                                          Len(df_dedup), n, min_per_group)]]
    /\ pc' = "dec"
    /\ UNCHANGED <<df, n, min_per_group, df_dedup, sampled, result, rng>>
    /\ UNCHANGED <<topVars, mainVars, featVars>>

\* lines 130-132, one turn of the first while loop
Decrement ==
    /\ pc = "dec"
    /\ OverTarget(cat_samples, n)
    /\ cat_samples' = [cat_samples EXCEPT ![IdxMax(cat_samples)].quota = @ - 1]
    /\ UNCHANGED <<pc, df, n, min_per_group, df_dedup, sampled, result, rng>>
    /\ UNCHANGED <<topVars, mainVars, featVars>>

\* line 130, the loop test fails
DecrementDone ==
    /\ pc = "dec"
    /\ ~OverTarget(cat_samples, n)
    /\ pc' = "inc"
    /\ UNCHANGED <<df, n, min_per_group, df_dedup, cat_samples, sampled, result, rng>>
    /\ UNCHANGED <<topVars, mainVars, featVars>>

\* lines 133-135, one turn of the second while loop; idxmax of an empty
\* Series raises ValueError
Increment ==
    /\ pc = "inc"
    /\ UnderTarget(cat_samples, n)
    /\ IF cat_samples = <<>>
       THEN /\ pc' = "error"
            /\ UNCHANGED cat_samples
       ELSE /\ cat_samples' = [cat_samples EXCEPT ![IdxMax(cat_samples)].quota = @ + 1]
            /\ UNCHANGED pc
    /\ UNCHANGED <<df, n, min_per_group, df_dedup, sampled, result, rng>>
    /\ UNCHANGED <<topVars, mainVars, featVars>>

\* line 133, the loop test fails
IncrementDone ==
    /\ pc = "inc"
    /\ ~UnderTarget(cat_samples, n)
    /\ pc' = "draw"
    /\ UNCHANGED <<df, n, min_per_group, df_dedup, cat_samples, sampled, result, rng>>
    /\ UNCHANGED <<topVars, mainVars, featVars>>

\* lines 138-141, one turn of the for loop. cat_df.sample(n, random_state=42)
\* takes the first n entries of the permutation a fresh RandomState(42)
\* yields for the population size; that permutation is fixed but unknown, so
\* it is chosen the first time a size is used and reused afterwards.
Draw ==
    /\ pc = "draw"
    /\ Len(sampled) < Len(cat_samples)
    /\ LET entry    == cat_samples[Len(sampled) + 1]
           cat_df   == CatFrame(df_dedup, entry.cat)
           sample_n == Min(entry.quota, Len(cat_df))
       IN \E p \in Perms(Len(cat_df)) :
             /\ rng[Len(cat_df)] # <<>> => p = rng[Len(cat_df)]
             /\ rng' = [rng EXCEPT ![Len(cat_df)] = p]
             /\ sampled' = Append(sampled, [j \in 1..sample_n |-> cat_df[p[j]]])
    /\ UNCHANGED <<pc, df, n, min_per_group, df_dedup, cat_samples, result>>
    /\ UNCHANGED <<topVars, mainVars, featVars>>

\* lines 143-145: pd.concat raises ValueError on an empty list
Concat ==
    /\ pc = "draw"
    /\ Len(sampled) = Len(cat_samples)
    /\ IF sampled = <<>>
       THEN /\ pc' = "error"
            /\ UNCHANGED result
       ELSE /\ result' = Flatten(sampled)
            /\ pc' = "done"
    /\ UNCHANGED <<df, n, min_per_group, df_dedup, cat_samples, sampled, rng>>
    /\ UNCHANGED <<topVars, mainVars, featVars>>

NextSample ==
    \/ Dedup
    \/ InitialQuotas
    \/ Decrement
    \/ DecrementDone
    \/ Increment
    \/ IncrementDone
    \/ Draw
    \/ Concat

-----------------------------------------------------------------------------
(* get_top_n_recs: pure parts *)

\* Similarity scores are kept in units of 0.00001. Scores holds two values
\* that differ before rounding to 4 places and agree after it; none of them
\* lies half-way between two 4-place values.
Scores == {0, 33332, 33334}

UnitScore == 100000

\* scores[i] = -1
SelfSentinel == 0 - 100000

Pairs(L) == {pr \in (1..L) \X (1..L) : pr[1] < pr[2]}

\* the matrices cosine_similarity and the weighted sum hand over: symmetric,
\* with a unit diagonal
SimMatrices(L) ==
    { [i \in 1..L |-> [j \in 1..L |->
          IF i = j THEN UnitScore
          ELSE IF i < j THEN f[<<i, j>>] ELSE f[<<j, i>>]]] :
      f \in [Pairs(L) -> Scores] }

\* scores = sim_matrix[i].copy(); scores[i] = -1
MaskSelf(rowvals, i) == [rowvals EXCEPT ![i] = SelfSentinel]

\* a variant that sorts descending, so that the reversal puts the lowest first
ArgsortDescending(scores) ==
    { p \in Perms(Len(scores)) :
        \A a, b \in 1..Len(scores) : a < b => scores[p[a]] >= scores[p[b]] }

\* np.argsort(scores): a permutation that puts the scores in ascending order.
\* The default sort kind is not stable, so equal scores come in any order.
Argsort(scores) ==
    { p \in Perms(Len(scores)) :
        \A a, b \in 1..Len(scores) : a < b => scores[p[a]] <= scores[p[b]] }

\* order[::-1][:k]
ReversedHead(order, k) ==
    [j \in 1..Min(k, Len(order)) |-> order[Len(order) - j + 1]]

\* round(float(x), 4): from units of 0.00001 to units of 0.0001, to nearest
Round4(x) == (x + 5) \div 10

\* the job id of row k: ids are unique per row, the row number stands for it
JobId(k) == k

\* the list comprehension of lines 154-157, for j in range(k) with k <= len(top_n)
EmitList(scores, top_n, k) ==
    [j \in 1..k |-> [id |-> JobId(top_n[j]), score |-> Round4(scores[top_n[j]])]]

-----------------------------------------------------------------------------
(* get_top_n_recs: the state machine *)

InitRecs ==
    /\ tpc = "loop"
    /\ df_len \in 0..MaxItems
    /\ sim_matrix \in SimMatrices(df_len)
    /\ rec_n \in 0..MaxTop
    /\ row_i = 1
    /\ recs = <<>>

\* get_top_n_recs is not running
IdleTopN ==
    /\ tpc = "idle"
    /\ df_len = 0
    /\ sim_matrix = <<>>
    /\ rec_n = 0
    /\ row_i = 0
    /\ recs = <<>>

\* lines 150-157, one turn of the for loop. top_n[j] raises IndexError when
\* range(n) runs past the end of top_n.
RecsRow ==
    /\ tpc = "loop"
    /\ row_i <= df_len
    /\ LET scores == MaskSelf(sim_matrix[row_i], row_i)
       IN \E order \in Argsort(scores) :
             LET top_n == ReversedHead(order, rec_n)
             IN IF rec_n > Len(top_n)
                THEN /\ tpc' = "error"
                     /\ UNCHANGED <<recs, row_i>>
                ELSE /\ recs' = Append(recs, EmitList(scores, top_n, rec_n))
                     /\ row_i' = row_i + 1
                     /\ UNCHANGED tpc
    /\ UNCHANGED <<sim_matrix, df_len, rec_n>>
    /\ UNCHANGED <<sampleVars, mainVars, featVars>>

\* line 158
RecsReturn ==
    /\ tpc = "loop"
    /\ row_i > df_len
    /\ tpc' = "done"
    /\ UNCHANGED <<sim_matrix, df_len, rec_n, row_i, recs>>
    /\ UNCHANGED <<sampleVars, mainVars, featVars>>

NextRecs ==
    \/ RecsRow
    \/ RecsReturn

-----------------------------------------------------------------------------
(* main: pure parts *)

SAMPLE_SIZE == 1000

TOP_N == 3

Features == {"description", "title", "category", "location", "job_type", "experience"}

\* the WEIGHTS dictionary as shipped, in hundredths
DefaultWeights ==
    [description |-> 35, title |-> 25, category |-> 15,
     location |-> 10, job_type |-> 8, experience |-> 7]

\* The dictionary is the run's configuration of the composite: the shipped
\* values, and edits of them that do and do not sum to 1.00.
WeightConfigs ==
    { DefaultWeights,
      [DefaultWeights EXCEPT !.description = 30, !.title = 30],
      [DefaultWeights EXCEPT !.description = 45],
      [DefaultWeights EXCEPT !.experience = 0] }

WeightTotal(w) ==
    w.description + w.title + w.category + w.location + w.job_type + w.experience

\* values an entry of each per-feature matrix takes
TitleValues == {0, 100000}

PartValues ==
    [description : {0, 60000, 100000},
     title       : TitleValues,
     category    : {0, 100000},
     location    : {0, 20000, 50000, 100000},
     job_type    : {0, 100000},
     experience  : {0, 50000, 100000}]

NoParts ==
    [description |-> 0, title |-> 0, category |-> 0,
     location |-> 0, job_type |-> 0, experience |-> 0]

\* lines 261-268, one entry of the sum; weights in hundredths
WeightedEntry(w, p) ==
    (w.description * p.description + w.title * p.title + w.category * p.category
       + w.location * p.location + w.job_type * p.job_type
       + w.experience * p.experience) \div 100

\* max_df=0.85, min_df=2: fit_transform raises ValueError when
\* max_df * n_docs < min_df
DescDfBandEmpty(docs) == 85 * docs < 2 * 100

NoRecIds == [baseline |-> {}, weighted |-> {}]

\* The sets of ids that the lists of one map can hold together, for a frame
\* of len rows whose lists have TOP_N entries each: every list names TOP_N
\* different rows of the frame, and none names its own row when the frame
\* has more than TOP_N rows.
RecommendedIds(len) ==
    { ids \in SUBSET {JobId(r) : r \in 1..len} :
          Cardinality(ids) >= Min(len, TOP_N + 1) }

-----------------------------------------------------------------------------
(* main: the state machine *)

InitMain ==
    /\ mpc = "download"
    /\ feed_ok = FALSE
    /\ n_jobs = 0
    /\ m_len = 0
    /\ WEIGHTS \in WeightConfigs
    /\ parts = NoParts
    /\ weighted_entry = 0
    /\ baseline_recs = <<>>
    /\ weighted_recs = <<>>
    /\ files = {}
    /\ jobs_export = {}
    /\ rec_ids = NoRecIds

\* main is not running
IdleMain ==
    /\ mpc = "idle"
    /\ feed_ok = FALSE
    /\ n_jobs = 0
    /\ m_len = 0
    /\ WEIGHTS = DefaultWeights
    /\ parts = NoParts
    /\ weighted_entry = 0
    /\ baseline_recs = <<>>
    /\ weighted_recs = <<>>
    /\ files = {}
    /\ jobs_export = {}
    /\ rec_ids = NoRecIds

\* lines 162-165
Download ==
    /\ mpc = "download"
    /\ \E ok \in BOOLEAN :
          /\ feed_ok' = ok
          /\ mpc' = IF ok THEN "parse" ELSE "exit1"
    /\ UNCHANGED <<n_jobs, m_len, WEIGHTS, parts, weighted_entry,
                   baseline_recs, weighted_recs, files,
                   jobs_export, rec_ids>>
    /\ UNCHANGED <<sampleVars, topVars, featVars>>

\* line 168
Parse ==
    /\ mpc = "parse"
    /\ n_jobs' \in 0..MaxJobs
    /\ mpc' = "sample"
    /\ UNCHANGED <<feed_ok, m_len, WEIGHTS, parts, weighted_entry,
                   baseline_recs, weighted_recs, files,
                   jobs_export, rec_ids>>
    /\ UNCHANGED <<sampleVars, topVars, featVars>>

\* lines 171-175. A DataFrame built from an empty list has no columns, so
\* df_all["category"] raises KeyError. Otherwise SAMPLE_SIZE is not below the
\* number of jobs of this model and stratified_sample returns every row that
\* survives drop_duplicates.
Sample ==
    /\ mpc = "sample"
    /\ IF n_jobs = 0
       THEN /\ mpc' = "error"
            /\ UNCHANGED m_len
       ELSE /\ m_len' \in 1..Min(n_jobs, SAMPLE_SIZE)
            /\ mpc' = "clean"
    /\ UNCHANGED <<feed_ok, n_jobs, WEIGHTS, parts, weighted_entry,
                   baseline_recs, weighted_recs, files,
                   jobs_export, rec_ids>>
    /\ UNCHANGED <<sampleVars, topVars, featVars>>

\* lines 178-194
Clean ==
    /\ mpc = "clean"
    /\ mpc' = "baseline"
    /\ UNCHANGED <<feed_ok, n_jobs, m_len, WEIGHTS, parts, weighted_entry,
                   baseline_recs, weighted_recs, files,
                   jobs_export, rec_ids>>
    /\ UNCHANGED <<sampleVars, topVars, featVars>>

\* lines 197-216. fit_transform raises ValueError when no title leaves a
\* term (vocab_ok = FALSE); get_top_n_recs raises IndexError when the frame
\* has fewer than TOP_N rows.
Baseline ==
    /\ mpc = "baseline"
    /\ \E vocab_ok \in BOOLEAN, t \in TitleValues :
          IF ~vocab_ok \/ m_len < TOP_N
          THEN /\ mpc' = "error"
               /\ UNCHANGED <<parts, baseline_recs, rec_ids>>
          ELSE /\ parts' = [parts EXCEPT !.title = t]
               /\ baseline_recs' = [r \in 1..m_len |-> TOP_N]
               /\ \E ids \in RecommendedIds(m_len) :
                      rec_ids' = [rec_ids EXCEPT !.baseline = ids]
               /\ mpc' = "vectorize"
    /\ UNCHANGED <<feed_ok, n_jobs, m_len, WEIGHTS, weighted_entry,
                   weighted_recs, files, jobs_export>>
    /\ UNCHANGED <<sampleVars, topVars, featVars>>

\* lines 219-254. fit_transform raises ValueError when the document-frequency
\* band is empty or leaves no term (vocab_ok = FALSE).
Vectorize ==
    /\ mpc = "vectorize"
    /\ \E vocab_ok \in BOOLEAN, p \in PartValues :
          IF ~vocab_ok \/ DescDfBandEmpty(m_len)
          THEN /\ mpc' = "error"
               /\ UNCHANGED parts
          ELSE /\ p.title = parts.title
               /\ parts' = p
               /\ mpc' = "compose"
    /\ UNCHANGED <<feed_ok, n_jobs, m_len, WEIGHTS, weighted_entry,
                   baseline_recs, weighted_recs, files,
                   jobs_export, rec_ids>>
    /\ UNCHANGED <<sampleVars, topVars, featVars>>

\* lines 256-268
Compose ==
    /\ mpc = "compose"
    /\ weighted_entry' = WeightedEntry(WEIGHTS, parts)
    /\ mpc' = "recs"
    /\ UNCHANGED <<feed_ok, n_jobs, m_len, WEIGHTS, parts,
                   baseline_recs, weighted_recs, files,
                   jobs_export, rec_ids>>
    /\ UNCHANGED <<sampleVars, topVars, featVars>>

\* lines 270-296
WeightedRecs ==
    /\ mpc = "recs"
    /\ IF m_len < TOP_N
       THEN /\ mpc' = "error"
            /\ UNCHANGED <<weighted_recs, rec_ids>>
       ELSE /\ weighted_recs' = [r \in 1..m_len |-> TOP_N]
            /\ \E ids \in RecommendedIds(m_len) :
                   rec_ids' = [rec_ids EXCEPT !.weighted = ids]
            /\ mpc' = "write_jobs"
    /\ UNCHANGED <<feed_ok, n_jobs, m_len, WEIGHTS, parts, weighted_entry,
                   baseline_recs, files, jobs_export>>
    /\ UNCHANGED <<sampleVars, topVars, featVars>>

\* lines 299-323: jobs_export holds one entry per row of df
WriteJobs ==
    /\ mpc = "write_jobs"
    /\ jobs_export' = {JobId(r) : r \in 1..m_len}
    /\ files' = files \cup {"jobs.json"}
    /\ mpc' = "write_baseline"
    /\ UNCHANGED <<feed_ok, n_jobs, m_len, WEIGHTS, parts, weighted_entry,
                   baseline_recs, weighted_recs, rec_ids>>
    /\ UNCHANGED <<sampleVars, topVars, featVars>>

\* recs_baseline.json left unwritten
WriteBaselineSkipped ==
    /\ mpc = "write_baseline"
    /\ mpc' = "write_weighted"
    /\ UNCHANGED <<feed_ok, n_jobs, m_len, WEIGHTS, parts, weighted_entry,
                   baseline_recs, weighted_recs, files, jobs_export, rec_ids>>
    /\ UNCHANGED <<sampleVars, topVars, featVars>>

\* lines 324-325
WriteBaseline ==
    /\ mpc = "write_baseline"
    /\ files' = files \cup {"recs_baseline.json"}
    /\ mpc' = "write_weighted"
    /\ UNCHANGED <<feed_ok, n_jobs, m_len, WEIGHTS, parts, weighted_entry,
                   baseline_recs, weighted_recs,
                   jobs_export, rec_ids>>
    /\ UNCHANGED <<sampleVars, topVars, featVars>>

\* the run ending right after the last file, without the assertions
WriteWeightedAndFinish ==
    /\ mpc = "write_weighted"
    /\ files' = files \cup {"recs_weighted.json"}
    /\ mpc' = "done"
    /\ UNCHANGED <<feed_ok, n_jobs, m_len, WEIGHTS, parts, weighted_entry,
                   baseline_recs, weighted_recs, jobs_export, rec_ids>>
    /\ UNCHANGED <<sampleVars, topVars, featVars>>

\* lines 326-332
WriteWeighted ==
    /\ mpc = "write_weighted"
    /\ files' = files \cup {"recs_weighted.json"}
    /\ mpc' = "sanity"
    /\ UNCHANGED <<feed_ok, n_jobs, m_len, WEIGHTS, parts, weighted_entry,
                   baseline_recs, weighted_recs,
                   jobs_export, rec_ids>>
    /\ UNCHANGED <<sampleVars, topVars, featVars>>

\* lines 335-341, for one of the two maps: keys holds the job ids the map is
\* keyed by, lens the length of each list, ids the ids found in the lists
AssertionsHold(keys, lens, ids, job_ids) ==
    /\ keys \subseteq job_ids
    /\ \A r \in DOMAIN lens : lens[r] = TOP_N
    /\ ids \subseteq job_ids

\* lines 334-343
SanityCheck ==
    /\ mpc = "sanity"
    /\ LET job_ids == jobs_export
       IN  mpc' = IF /\ AssertionsHold({JobId(r) : r \in DOMAIN baseline_recs},
                                       baseline_recs, rec_ids.baseline, job_ids)
                     /\ AssertionsHold({JobId(r) : r \in DOMAIN weighted_recs},
                                       weighted_recs, rec_ids.weighted, job_ids)
                  THEN "done"
                  ELSE "assert_failed"
    /\ UNCHANGED <<feed_ok, n_jobs, m_len, WEIGHTS, parts, weighted_entry,
                   baseline_recs, weighted_recs, files, jobs_export, rec_ids>>
    /\ UNCHANGED <<sampleVars, topVars, featVars>>

NextMainStages ==
    \/ Download
    \/ Parse
    \/ Sample
    \/ Clean
    \/ Baseline
    \/ Vectorize
    \/ Compose
    \/ WeightedRecs
    \/ WriteJobs
    \/ WriteBaseline
    \/ WriteWeighted
    \/ SanityCheck

-----------------------------------------------------------------------------
(* The feature matrices of main: pure parts *)

\* Rows of the sampled frame, reduced to the columns read by lines 184-254,
\* as parse_feed leaves them ('' where the feed had no value).
FeatureRecords ==
    { [city |-> "Austin", state |-> "TX", country |-> "US", category |-> "IT",
       job_type |-> "Full-time", experience |-> "Entry level"],
      [city |-> "Dallas", state |-> "TX", country |-> "US", category |-> "IT",
       job_type |-> "", experience |-> "Associate"],
      [city |-> "Boston", state |-> "MA", country |-> "US", category |-> "Sales",
       job_type |-> "Full-time", experience |-> ""],
      [city |-> "Paris", state |-> "IDF", country |-> "FR", category |-> "",
       job_type |-> "Contract", experience |-> "Executive"],
      [city |-> "", state |-> "", country |-> "", category |-> "Sales",
       job_type |-> "", experience |-> "Lead"],
      [city |-> "", state |-> "TX", country |-> "US", category |-> "",
       job_type |-> "Contract", experience |-> "Internship"],
      [city |-> "Austin", state |-> "TX", country |-> "US", category |-> "Sales",
       job_type |-> "Part-time", experience |-> "Director"],
      [city |-> "Boston", state |-> "MA", country |-> "US", category |-> "IT",
       job_type |-> "Full-time", experience |-> "Mid-Senior level"] }

\* The frames that reach line 184: the baseline get_top_n_recs call of
\* line 207 has returned, so the frame has at least TOP_N rows.
Frames == UNION { [1..k -> FeatureRecords] : k \in TOP_N..MaxFrame }

\* Series.replace('', default)
ReplaceEmpty(v, default) == IF v = "" THEN default ELSE v

\* lines 184-190
FillMissing(r) ==
    [ city       |-> ReplaceEmpty(r.city, "Unknown"),
      state      |-> ReplaceEmpty(r.state, "Unknown"),
      country    |-> ReplaceEmpty(r.country, "Unknown"),
      category   |-> ReplaceEmpty(r.category, "Other"),
      job_type   |-> ReplaceEmpty(r.job_type, "Not Specified"),
      experience |-> ReplaceEmpty(r.experience, "Not Specified") ]

\* (a[:, None] == a[None, :]).astype(np.float32), one entry
Indicator(a, b) == IF a = b THEN UnitScore ELSE 0

\* the tiers tested in the other order: state before city
LocTierStateFirst(a, b) ==
    IF a.state = b.state THEN 50000
    ELSE IF a.city = b.city THEN 100000
    ELSE IF a.country = b.country THEN 20000
    ELSE 0

\* lines 237-241, one entry of the nested np.where
LocTier(a, b) ==
    IF a.city = b.city THEN 100000
    ELSE IF a.state = b.state THEN 50000
    ELSE IF a.country = b.country THEN 20000
    ELSE 0

\* exp_map.get(e, 0): unseen labels at the bottom of the scale
ExpValDefaultZero(e) ==
    CASE e = "Entry level" -> 0
      [] e = "Internship" -> 0
      [] e = "Associate" -> 1
      [] e = "Mid-Senior level" -> 2
      [] e = "Not Specified" -> 2
      [] e = "Director" -> 3
      [] e = "Executive" -> 4
      [] OTHER -> 0

\* lines 246-251: exp_map.get(e, 2)
ExpVal(e) ==
    CASE e = "Entry level" -> 0
      [] e = "Internship" -> 0
      [] e = "Associate" -> 1
      [] e = "Mid-Senior level" -> 2
      [] e = "Not Specified" -> 2
      [] e = "Director" -> 3
      [] e = "Executive" -> 4
      [] OTHER -> 2

\* the difference without np.abs
ExpDistSigned(a, b) == a - b

\* line 252, one entry of np.abs(exp_vals[:, None] - exp_vals[None, :])
ExpDist(a, b) == IF a >= b THEN a - b ELSE b - a

\* line 253: exp_dist.max()
MaxDist(fr) ==
    CHOOSE d \in 0..4 :
        /\ \E i, j \in DOMAIN fr :
               ExpDist(ExpVal(fr[i].experience), ExpVal(fr[j].experience)) = d
        /\ \A i, j \in DOMAIN fr :
               ExpDist(ExpVal(fr[i].experience), ExpVal(fr[j].experience)) <= d

\* line 254, one entry, in units of 0.00001
ExpSimEntry(dist, max_dist) ==
    IF max_dist > 0 THEN UnitScore - (UnitScore * dist) \div max_dist
    ELSE UnitScore

\* cosine scores of two different documents, in units of 0.00001
TextScores == {0, 33334}

\* The matrices cosine_similarity can return for L documents, as far as the
\* composite reads them: symmetric, unit diagonal, one score for the pairs
\* whose row numbers differ in parity and one for the others.
TextMatrices(L) ==
    { [i \in 1..L |-> [j \in 1..L |->
          IF i = j THEN UnitScore
          ELSE IF (i + j) % 2 = 1 THEN a ELSE b]] : a, b \in TextScores }

-----------------------------------------------------------------------------
(* The feature matrices of main: the state machine *)

InitFeat ==
    /\ fpc = "fill"
    /\ feat_df \in Frames
    /\ title_sim = <<>>
    /\ desc_sim = <<>>
    /\ cat_sim = <<>>
    /\ loc_sim = <<>>
    /\ type_sim = <<>>
    /\ exp_sim = <<>>
    /\ weighted_sim = <<>>

\* the feature block is not running
IdleFeat ==
    /\ fpc = "idle"
    /\ feat_df = <<>>
    /\ title_sim = <<>>
    /\ desc_sim = <<>>
    /\ cat_sim = <<>>
    /\ loc_sim = <<>>
    /\ type_sim = <<>>
    /\ exp_sim = <<>>
    /\ weighted_sim = <<>>

\* lines 184-190
FillMissingValues ==
    /\ fpc = "fill"
    /\ feat_df' = [i \in DOMAIN feat_df |-> FillMissing(feat_df[i])]
    /\ fpc' = "title"
    /\ UNCHANGED <<title_sim, desc_sim, cat_sim, loc_sim, type_sim, exp_sim, weighted_sim>>
    /\ UNCHANGED <<sampleVars, topVars, mainVars>>

\* lines 197-205
TitleCosine ==
    /\ fpc = "title"
    /\ title_sim' \in TextMatrices(Len(feat_df))
    /\ fpc' = "desc"
    /\ UNCHANGED <<feat_df, desc_sim, cat_sim, loc_sim, type_sim, exp_sim, weighted_sim>>
    /\ UNCHANGED <<sampleVars, topVars, mainVars>>

\* lines 220-229
DescCosine ==
    /\ fpc = "desc"
    /\ desc_sim' \in TextMatrices(Len(feat_df))
    /\ fpc' = "cat"
    /\ UNCHANGED <<feat_df, title_sim, cat_sim, loc_sim, type_sim, exp_sim, weighted_sim>>
    /\ UNCHANGED <<sampleVars, topVars, mainVars>>

\* lines 231-232
CategoryMatrix ==
    /\ fpc = "cat"
    /\ cat_sim' = [i \in DOMAIN feat_df |-> [j \in DOMAIN feat_df |->
                      Indicator(feat_df[i].category, feat_df[j].category)]]
    /\ fpc' = "loc"
    /\ UNCHANGED <<feat_df, title_sim, desc_sim, loc_sim, type_sim, exp_sim, weighted_sim>>
    /\ UNCHANGED <<sampleVars, topVars, mainVars>>

\* lines 234-241
LocationMatrix ==
    /\ fpc = "loc"
    /\ loc_sim' = [i \in DOMAIN feat_df |-> [j \in DOMAIN feat_df |->
                      LocTier(feat_df[i], feat_df[j])]]
    /\ fpc' = "type"
    /\ UNCHANGED <<feat_df, title_sim, desc_sim, cat_sim, type_sim, exp_sim, weighted_sim>>
    /\ UNCHANGED <<sampleVars, topVars, mainVars>>

\* lines 243-244
JobTypeMatrix ==
    /\ fpc = "type"
    /\ type_sim' = [i \in DOMAIN feat_df |-> [j \in DOMAIN feat_df |->
                       Indicator(feat_df[i].job_type, feat_df[j].job_type)]]
    /\ fpc' = "exp"
    /\ UNCHANGED <<feat_df, title_sim, desc_sim, cat_sim, loc_sim, exp_sim, weighted_sim>>
    /\ UNCHANGED <<sampleVars, topVars, mainVars>>

\* lines 246-254
ExperienceMatrix ==
    /\ fpc = "exp"
    /\ exp_sim' = [i \in DOMAIN feat_df |-> [j \in DOMAIN feat_df |->
                      ExpSimEntry(ExpDist(ExpVal(feat_df[i].experience),
                                          ExpVal(feat_df[j].experience)),
                                  MaxDist(feat_df))]]
    /\ fpc' = "weighted"
    /\ UNCHANGED <<feat_df, title_sim, desc_sim, cat_sim, loc_sim, type_sim, weighted_sim>>
    /\ UNCHANGED <<sampleVars, topVars, mainVars>>

\* lines 256-268
WeightedMatrix ==
    /\ fpc = "weighted"
    /\ weighted_sim' = [i \in DOMAIN feat_df |-> [j \in DOMAIN feat_df |->
           WeightedEntry(WEIGHTS,
               [ description |-> desc_sim[i][j], title |-> title_sim[i][j],
                 category |-> cat_sim[i][j], location |-> loc_sim[i][j],
                 job_type |-> type_sim[i][j], experience |-> exp_sim[i][j] ])]]
    /\ fpc' = "done"
    /\ UNCHANGED <<feat_df, title_sim, desc_sim, cat_sim, loc_sim, type_sim, exp_sim>>
    /\ UNCHANGED <<sampleVars, topVars, mainVars>>

NextFeatStages ==
    \/ FillMissingValues
    \/ TitleCosine
    \/ DescCosine
    \/ CategoryMatrix
    \/ LocationMatrix
    \/ JobTypeMatrix
    \/ ExperienceMatrix
    \/ WeightedMatrix

-----------------------------------------------------------------------------
(* The specifications *)

Init == InitSample /\ IdleTopN /\ IdleMain /\ IdleFeat

Next == NextSample

Spec == Init /\ [][Next]_vars

InitTopN == IdleSample /\ InitRecs /\ IdleMain /\ IdleFeat

NextTopN == NextRecs

SpecTopN == InitTopN /\ [][NextTopN]_vars

InitRun == IdleSample /\ IdleTopN /\ InitMain /\ IdleFeat

NextMain == NextMainStages

SpecMain == InitRun /\ [][NextMain]_vars

InitFeatures == IdleSample /\ IdleTopN /\ IdleMain /\ InitFeat

NextFeat == NextFeatStages

SpecFeat == InitFeatures /\ [][NextFeat]_vars

-----------------------------------------------------------------------------
(* Properties of stratified_sample (checked under Spec) *)

SampleReturned == pc = "done"

\* number of rows of category c in the returned frame
ResultCount(c) == Cardinality({i \in DOMAIN result : result[i].rec.category = c})

\* the floor cannot be met for every category within n slots
FloorUnsatisfiable == min_per_group * Cardinality(CatsOf(df_dedup)) > n

\* C1: every category with at least min_per_group rows in the deduplicated
\* corpus has at least min_per_group rows in the returned sample (unless the
\* whole deduplicated corpus has fewer than min_per_group rows).
C1_FloorPerCategory ==
    SampleReturned =>
        \A c \in CatsOf(df_dedup) :
            (CountOf(df_dedup, c) >= min_per_group /\ Len(df_dedup) >= min_per_group)
                => ResultCount(c) >= min_per_group

\* C2: the returned sample has min(n, size of the deduplicated corpus) rows:
\* never more than n, and fewer than n only when the corpus is that small.
C2_SizeIsMinOfTargetAndCorpus ==
    SampleReturned => Len(result) = Min(n, Len(df_dedup))

\* C3 as stated: after both adjustment loops the quotas of a non-empty
\* deduplicated corpus sum to min(n, size of the deduplicated corpus).
C3_QuotaSumIsMinOfTargetAndCorpus ==
    (pc \in {"draw", "done"} /\ df_dedup # <<>>)
        => QuotaSum(cat_samples) = Min(n, Len(df_dedup))

\* C3 as amended: after both adjustment loops the quotas of a non-empty
\* deduplicated corpus sum to n, also when the corpus has fewer than n rows.
C3_QuotaSumIsTarget ==
    (pc \in {"draw", "done"} /\ df_dedup # <<>>) => QuotaSum(cat_samples) = n

\* C3 witness: the loops have finished on a corpus smaller than the target,
\* after the quotas were adjusted
C3_Witness ==
    /\ pc = "draw"
    /\ df_dedup # <<>>
    /\ Len(df_dedup) < n
    /\ QuotaSum(cat_samples) = n
    /\ \E i \in DOMAIN cat_samples :
          cat_samples[i].quota #
              InitialQuota(CountOf(df_dedup, cat_samples[i].cat), Len(df_dedup),
                           n, min_per_group)

\* C4: the returned sample holds no two rows with the same (title, company,
\* city), and every row of it is the first row of the corpus with its triple.
C4_NoDuplicateFirstWins ==
    SampleReturned =>
        /\ \A i, j \in DOMAIN result :
              i # j => DedupKey(result[i].rec) # DedupKey(result[j].rec)
        /\ \A i \in DOMAIN result :
              /\ DedupKey(df[result[i].row]) = DedupKey(result[i].rec)
              /\ \A j \in 1..(result[i].row - 1) :
                    DedupKey(df[j]) # DedupKey(result[i].rec)

\* C4 witness: a sample was returned that holds a row whose triple occurs
\* again later in the corpus
C4_Witness ==
    /\ SampleReturned
    /\ \E i \in DOMAIN result :
          \E j \in (result[i].row + 1)..Len(df) :
              DedupKey(df[j]) = DedupKey(result[i].rec)

\* the step that builds the quotas, before either loop has run
QuotasBuilt == pc = "quota" /\ pc' = "dec"

\* C16 (as stated): before adjustment the quota of every category is
\* max(round(share * N), M), and so at least M.
C16_InitialQuotaIsRoundedShare ==
    [][ QuotasBuilt =>
          \A i \in DOMAIN cat_samples' :
              /\ cat_samples'[i].quota =
                     Max(ShareRound(CountOf(df_dedup, cat_samples'[i].cat),
                                    Len(df_dedup), n), min_per_group)
              /\ cat_samples'[i].quota >= min_per_group ]_vars

\* q is max(t, M) for the integer t with t <= count * N / total < t + 1
C16_IsTruncatedShareOrFloor(q, count, total) ==
    /\ q >= min_per_group
    /\ q > min_per_group => (q * total <= count * n /\ count * n < (q + 1) * total)
    /\ q = min_per_group => count * n < (q + 1) * total

\* C16 (amended): before adjustment the quota of every category is
\* max(t, M) with t the share * N truncated to an integer, not rounded; and
\* so every category present starts with at least M.
C16_InitialQuotaIsTruncatedShare ==
    [][ QuotasBuilt =>
          \A i \in DOMAIN cat_samples' :
              C16_IsTruncatedShareOrFloor(cat_samples'[i].quota,
                  CountOf(df_dedup, cat_samples'[i].cat), Len(df_dedup)) ]_vars

\* the quotas stand as first built, and one of them is a share whose
\* fraction above one half was cut off
C16_Witness ==
    /\ pc = "dec"
    /\ \A i \in DOMAIN cat_samples :
           C16_IsTruncatedShareOrFloor(cat_samples[i].quota,
               CountOf(df_dedup, cat_samples[i].cat), Len(df_dedup))
    /\ \E i \in DOMAIN cat_samples :
           LET share == CountOf(df_dedup, cat_samples[i].cat) * n
           IN  /\ 2 * (share % Len(df_dedup)) > Len(df_dedup)
               /\ cat_samples[i].quota * Len(df_dedup) <= share
               /\ cat_samples[i].quota >= min_per_group

\* a turn of the first or of the second adjustment loop
DecrementTurn == pc = "dec" /\ cat_samples' # cat_samples

IncrementTurn == pc = "inc" /\ cat_samples' # cat_samples

\* C17: every turn of the adjustment loops moves the quota sum by exactly 1
\* toward N (which is why the loops end), and the quota a turn of the
\* over-count loop decrements is strictly greater than M.
C17_LoopsStepTowardTarget ==
    [][ /\ DecrementTurn =>
              /\ QuotaSum(cat_samples) > n
              /\ QuotaSum(cat_samples') = QuotaSum(cat_samples) - 1
              /\ \A i \in DOMAIN cat_samples :
                     cat_samples'[i].quota # cat_samples[i].quota
                         => cat_samples[i].quota > min_per_group
        /\ IncrementTurn =>
              /\ QuotaSum(cat_samples) < n
              /\ QuotaSum(cat_samples') = QuotaSum(cat_samples) + 1 ]_vars

\* position in the deduplicated corpus of the first record of category c
FirstSeen(c) ==
    CHOOSE i \in DOMAIN df_dedup :
        /\ df_dedup[i].rec.category = c
        /\ \A j \in 1..(i - 1) : df_dedup[j].rec.category # c

\* the turn changes the quota at position i and no other
OnlyChanged(i) ==
    /\ cat_samples'[i].quota # cat_samples[i].quota
    /\ \A j \in DOMAIN cat_samples \ {i} : cat_samples'[j] = cat_samples[j]

Largest(i) == \A j \in DOMAIN cat_samples : cat_samples[j].quota <= cat_samples[i].quota

\* C18 (as stated): in every turn of the adjustment loops the quota changed
\* is the currently largest one, and among several categories that share the
\* largest quota it is the one first seen in deduplicated corpus order.
C18_LargestTiesByFirstSeen ==
    [][ (DecrementTurn \/ IncrementTurn) =>
          \E i \in DOMAIN cat_samples :
              /\ OnlyChanged(i)
              /\ Largest(i)
              /\ \A j \in DOMAIN cat_samples :
                     cat_samples[j].quota = cat_samples[i].quota
                         => FirstSeen(cat_samples[i].cat) <= FirstSeen(cat_samples[j].cat) ]_vars

\* C18 (amended): in every turn of the adjustment loops the quota changed is
\* the currently largest one, and among several categories that share the
\* largest quota it is the one that stands first in the quota Series, whose
\* order is that of value_counts: no category tied with it has more records
\* in the deduplicated corpus.
C18_LargestTiesBySeriesOrder ==
    [][ (DecrementTurn \/ IncrementTurn) =>
          \E i \in DOMAIN cat_samples :
              /\ OnlyChanged(i)
              /\ Largest(i)
              /\ \A j \in DOMAIN cat_samples :
                     cat_samples[j].quota = cat_samples[i].quota
                         => /\ i <= j
                            /\ CountOf(df_dedup, cat_samples[i].cat)
                                   >= CountOf(df_dedup, cat_samples[j].cat) ]_vars

\* after one turn of the over-count loop: two categories started with the
\* same quota, and the one decremented has more records but was seen later
C18_Witness ==
    /\ pc = "dec"
    /\ \E i, j \in DOMAIN cat_samples :
           LET qi == InitialQuota(CountOf(df_dedup, cat_samples[i].cat),
                                  Len(df_dedup), n, min_per_group)
               qj == InitialQuota(CountOf(df_dedup, cat_samples[j].cat),
                                  Len(df_dedup), n, min_per_group)
           IN  /\ qi = qj
               /\ cat_samples[i].quota = qi - 1
               /\ cat_samples[j].quota = qj
               /\ FirstSeen(cat_samples[j].cat) < FirstSeen(cat_samples[i].cat)
               /\ CountOf(df_dedup, cat_samples[i].cat)
                      > CountOf(df_dedup, cat_samples[j].cat)

\* C8: an empty deduplicated corpus gives an empty sample, never an error.
C8_EmptyCorpusEmptySample ==
    DropDuplicates(df) = <<>> => pc # "error"

\* C10: when min_per_group times the number of categories exceeds n, no quota
\* is pushed below min_per_group, no row is drawn and no sample is returned.
C10_UnsatisfiableFloorRejected ==
    (FloorUnsatisfiable /\ pc \in {"dec", "inc", "draw", "done"})
        => /\ \A i \in DOMAIN cat_samples : cat_samples[i].quota >= min_per_group
           /\ sampled = <<>>
           /\ ~SampleReturned

-----------------------------------------------------------------------------
(* Properties of get_top_n_recs (checked under SpecTopN) *)

\* the score of column k in the masked row r, before rounding
RawScore(r, k) == MaskSelf(sim_matrix[r], r)[k]

ListIds(list) == {list[e].id : e \in DOMAIN list}

OtherRows(r) == {JobId(k) : k \in (1..df_len) \ {r}}

\* C5: no list emitted for a row holds the id of that row.
C5_SelfNeverNeighbor ==
    \A r \in DOMAIN recs : JobId(r) \notin ListIds(recs[r])

\* C6: with fewer than n+1 rows get_top_n_recs raises no error and the list
\* of every row holds exactly the other rows, len(df)-1 of them.
C6_SmallFrameShorterLists ==
    df_len < rec_n + 1 =>
        /\ tpc # "error"
        /\ \A r \in DOMAIN recs :
              /\ Len(recs[r]) = df_len - 1
              /\ ListIds(recs[r]) = OtherRows(r)

-----------------------------------------------------------------------------
(* Properties of main (checked under SpecMain) *)

\* main has begun the similarity computation: sampling or a later stage
ComputationBegun ==
    mpc \in {"clean", "baseline", "vectorize", "compose", "recs", "write_jobs",
             "write_baseline", "write_weighted", "sanity", "done"}

\* C9: the weights of the composite sum to 1.00, and a run whose weights do
\* not is rejected before sampling, vectorizing or composing begins.
C9_WeightsSumToOneOrRejected ==
    WeightTotal(WEIGHTS) # 100 => ~ComputationBegun

\* the post-condition as the claim states it, for one map
C15_MapWellFormed(lens, ids) ==
    /\ \A r \in DOMAIN lens : JobId(r) \in jobs_export
    /\ \A r \in DOMAIN lens : lens[r] = TOP_N
    /\ \A id \in ids : id \in jobs_export

C15_PostCondition ==
    /\ C15_MapWellFormed(baseline_recs, rec_ids.baseline)
    /\ C15_MapWellFormed(weighted_recs, rec_ids.weighted)

\* C15: a run completes only by passing the post-condition check: the step
\* into successful completion is taken from the check, with every key of both
\* maps an exported job id, every list of exactly TOP_N entries and every
\* recommended id exported; a run that reaches the check with any of these
\* violated goes to the assertion failure instead.
C15_CompletionPassedCheck ==
    [][ /\ (mpc' = "done" /\ mpc # "done") => (mpc = "sanity" /\ C15_PostCondition)
        /\ (mpc = "sanity" /\ ~C15_PostCondition) => mpc' = "assert_failed" ]_vars

\* a completed run over a frame whose lists leave rows out
C15_Witness ==
    /\ mpc = "done"
    /\ m_len > TOP_N
    /\ DOMAIN baseline_recs = 1..m_len
    /\ rec_ids.weighted # {}
    /\ C15_PostCondition

ExportFiles == {"jobs.json", "recs_baseline.json", "recs_weighted.json"}

CheckBegun == {"sanity", "done", "assert_failed"}

\* C19: the three export files are written before the post-condition
\* assertions are evaluated: whenever the run is at the assertions or past
\* them (passed or failed) all three files are on disk, and from the
\* assertions on no file is written.
C19_FilesWrittenBeforeCheck ==
    [][ /\ mpc' \in CheckBegun => files' = ExportFiles
        /\ mpc \in CheckBegun => files' = files ]_vars

\* the run stands at the assertions with the three files written
C19_Witness ==
    /\ mpc = "sanity"
    /\ files = ExportFiles
    /\ jobs_export # {}

-----------------------------------------------------------------------------
(* Properties of the feature matrices (checked under SpecFeat) *)

LocationComputed == loc_sim # <<>>

\* C11: every entry of the location matrix is 1.0 when the two cities are
\* equal; otherwise 0.5 when the states are equal; otherwise 0.2 when the
\* countries are equal; otherwise 0.0.
C11_LocationTiers ==
    LocationComputed =>
        \A i, j \in DOMAIN feat_df :
            /\ feat_df[i].city = feat_df[j].city => loc_sim[i][j] = 100000
            /\ (feat_df[i].city # feat_df[j].city
                  /\ feat_df[i].state = feat_df[j].state) => loc_sim[i][j] = 50000
            /\ (feat_df[i].city # feat_df[j].city
                  /\ feat_df[i].state # feat_df[j].state
                  /\ feat_df[i].country = feat_df[j].country) => loc_sim[i][j] = 20000
            /\ (feat_df[i].city # feat_df[j].city
                  /\ feat_df[i].state # feat_df[j].state
                  /\ feat_df[i].country # feat_df[j].country) => loc_sim[i][j] = 0

\* a frame in which the city tier wins over a differing state, and the
\* country tier and the bottom tier both occur
C11_Witness ==
    /\ LocationComputed
    /\ \E i, j \in DOMAIN feat_df :
           /\ feat_df[i].city = feat_df[j].city
           /\ feat_df[i].state # feat_df[j].state
           /\ loc_sim[i][j] = 100000
    /\ \E i, j \in DOMAIN feat_df : loc_sim[i][j] = 20000
    /\ \E i, j \in DOMAIN feat_df : loc_sim[i][j] = 0

Symmetric(m) == \A i, j \in DOMAIN m : m[i][j] = m[j][i]

\* C12: every similarity matrix the run builds is symmetric: the category,
\* location, job-type and experience matrices and their weighted composite
\* have M[i][j] = M[j][i] at every position.
C12_MatricesSymmetric ==
    /\ Symmetric(cat_sim)
    /\ Symmetric(loc_sim)
    /\ Symmetric(type_sim)
    /\ Symmetric(exp_sim)
    /\ Symmetric(weighted_sim)

\* all five matrices are built, over rows that differ in every feature, and
\* the experience matrix and the composite are not constant off the diagonal
C12_Witness ==
    /\ fpc = "done"
    /\ \E i, j \in DOMAIN feat_df :
           /\ cat_sim[i][j] = 0
           /\ type_sim[i][j] = 0
           /\ loc_sim[i][j] \notin {0, 100000}
           /\ exp_sim[i][j] \notin {0, 100000}
    /\ \E i, j, k \in DOMAIN feat_df :
           /\ i # j /\ i # k /\ j # k
           /\ weighted_sim[i][j] # weighted_sim[i][k]

ExperienceComputed == exp_sim # <<>>

\* the ordinal table as the claim states it
C13_Ordinal(e) ==
    IF e \in {"Entry level", "Internship"} THEN 0
    ELSE IF e = "Associate" THEN 1
    ELSE IF e \in {"Mid-Senior level", "Not Specified"} THEN 2
    ELSE IF e = "Director" THEN 3
    ELSE IF e = "Executive" THEN 4
    ELSE 2

C13_Distance(i, j) ==
    LET a == C13_Ordinal(feat_df[i].experience)
        b == C13_Ordinal(feat_df[j].experience)
    IN  IF a >= b THEN a - b ELSE b - a

\* C13: the experience similarity of rows i and j is 1 - |a_i - a_j| / D,
\* with a the ordinal of the row's label (unseen labels 2) and D the largest
\* distance observed in the frame; when D = 0 it is 1.0 everywhere. Every
\* value lies in [0, 1] and the diagonal is 1. (Scores are in units of
\* 0.00001, so the quotient is matched to within one unit.)
C13_ExperienceSimilarity ==
    ExperienceComputed =>
        LET rows == DOMAIN feat_df
            D == CHOOSE d \in 0..4 :
                     /\ \E i, j \in rows : C13_Distance(i, j) = d
                     /\ \A i, j \in rows : C13_Distance(i, j) <= d
        IN  \A i, j \in rows :
                /\ D = 0 => exp_sim[i][j] = 100000
                /\ D > 0 =>
                      LET diff == exp_sim[i][j] * D - 100000 * (D - C13_Distance(i, j))
                      IN  diff < D /\ 0 - diff < D
                /\ exp_sim[i][j] >= 0
                /\ exp_sim[i][j] <= 100000
                /\ exp_sim[i][i] = 100000

\* a frame with a label the table does not list, whose row is at a distance
\* strictly between 0 and D from another row
C13_Witness ==
    /\ ExperienceComputed
    /\ \E i, j \in DOMAIN feat_df :
           /\ feat_df[i].experience = "Lead"
           /\ exp_sim[i][j] \notin {0, 100000}

====
